---- MODULE Spec2Model ----
(***************************************************************************)
(* Day-plan scheduler of the assignment tracker (PlansView.tsx).           *)
(*                                                                         *)
(* Representation.                                                         *)
(*  - An instant is an integer number of hours on the America/Toronto      *)
(*    wall clock; a calendar day is instant \div HoursPerDay.  Luxon's     *)
(*    startOf("day"), plus({days}) and diff(.., "days") are calendar       *)
(*    operations in that zone, so they are exact on this representation.   *)
(*  - A "YYYY-MM-DD" string is represented by the ordinal of its day; the  *)
(*    string order of well-formed ISO dates is the order of the ordinals.  *)
(*  - An ISO due string is represented by the instant it parses to.        *)
(*  - A JavaScript object with optional fields is a function whose domain  *)
(*    holds exactly the fields that are present.                           *)
(*  - Due dates and override days are well-formed: an unparseable dueISO   *)
(*    (which App.onSubmit never stores) is outside the model.              *)
(*  - Estimates are integers; Math.round on doubles agrees with the exact  *)
(*    rounding used here for every chunk count below 400.                  *)
(***************************************************************************)
EXTENDS Integers, Sequences, FiniteSets, TLC

VARIABLES
  items,      \* App: the assignment list, handed to PlanView as its items
  overrides,  \* PlanView: the override map
  now,        \* the clock (DateTime.now())
  plan,       \* PlanView: the memoised result of buildDayPlan
  pc,         \* "mount" | "planned" (scheduler alone), "boot" | "ready" | "crashed" (page)
  storage,    \* localStorage[PLAN_KEY]
  itemsBlob,  \* localStorage["assignment_tracker_v1"]
  movingKey,  \* PlanView: key of the chunk in the move-day dialog, "" for null
  movingDate, \* PlanView: date shown in the move-day dialog
  zone,       \* hours the system time zone is ahead of America/Toronto
  editingId,  \* App: id of the assignment being edited, "" for null
  form,       \* App: course, title, due, notes, titleTouched
  snack,      \* App: the error snackbar
  nextId,     \* number of ids uid() has produced
  steps,      \* number of user events so far
  filters,    \* App: query, courseFilter, statusFilter, sortOrder
  filtered,   \* App: the memoised filtered and sorted list
  shown       \* App: the list as last rendered, each row with its status chip

pageVars ==
  <<storage, itemsBlob, movingKey, movingDate, zone, editingId, form, snack, nextId, steps,
    filters, filtered, shown>>

vars == <<items, overrides, now, plan, pc, pageVars>>

(***************************************************************************)
(* Program constants                                                       *)
(***************************************************************************)
CHUNK_MINUTES == 30

MIN_LAST_CHUNK == 10

DEFAULT_ESTIMATE == 60

MIN_TOTAL_MINUTES == 30

STALE_DAYS == 30

VIEW_DAYS == 6

HoursPerDay == 24

(***************************************************************************)
(* Bounds of the model                                                     *)
(***************************************************************************)
MaxEstimate == 100

NegEstimates == 2

MaxDueAhead == 8

MaxOverrideAhead == 7

MaxToday == 2

MaxSteps == 6

MaxNew == 2

\* hours the clock of the page may advance
MaxElapsed == 48

(***************************************************************************)
(* Arithmetic helpers                                                      *)
(***************************************************************************)
Max(a, b) == IF a >= b THEN a ELSE b

Min(a, b) == IF a <= b THEN a ELSE b

\* Math.ceil(a / b) for b > 0
Ceil(a, b) == -((-a) \div b)

\* variant: Math.floor in place of Math.round
Round_floor(num, den) == num \div den

\* Math.round(num / den) for num >= 0, den > 0: halves round up
Round(num, den) == (2 * num + den) \div (2 * den)

(***************************************************************************)
(* Values.  null is "" for a nullable string and Null for a nullable       *)
(* DateTime; a valid DateTime is DT(t) for the instant t.                  *)
(***************************************************************************)
Null == [null |-> TRUE]

InvalidDT == [invalid |-> TRUE]

DT(t) == [t |-> t]

isDT(v) == "t" \in DOMAIN v

(***************************************************************************)
(* Luxon operations used by the scheduler                                  *)
(***************************************************************************)
startOfDay(t) == (t \div HoursPerDay) * HoursPerDay

plusDays(t, d) == t + d * HoursPerDay

toISODate(t) == t \div HoursPerDay

diffDays(a, b) == (a - b) \div HoursPerDay

(***************************************************************************)
(* chunkKey: `${assignmentId}|${index}`                                    *)
(***************************************************************************)
\* variant: the id is cut at its first separator before the key is built
chunkKey_idCutAtBar(assignmentId, index) ==
  (IF assignmentId = "a|1" THEN "a" ELSE assignmentId) \o "|" \o ToString(index)

chunkKey(assignmentId, index) == assignmentId \o "|" \o ToString(index)

EmptyObject == [f \in {} |-> TRUE]

\* variant: days past the end of the view are not pulled back
clampToView_noUpper(dayISO, viewStartISO, viewEndISO) ==
  IF dayISO < viewStartISO THEN viewStartISO ELSE dayISO

clampToView(dayISO, viewStartISO, viewEndISO) ==
  IF dayISO < viewStartISO THEN viewStartISO
  ELSE IF dayISO > viewEndISO THEN viewEndISO
  ELSE dayISO

(***************************************************************************)
(* buildDayPlan, step by step                                              *)
(***************************************************************************)
viewStartOf(t) == startOfDay(t)

viewEndOf(t) == plusDays(viewStartOf(t), VIEW_DAYS)

\* variant: <= in place of < in the stale-item filter
isStale_inclusive(a, t) == a.dueISO <= plusDays(viewStartOf(t), -STALE_DAYS)

\* if (due < viewStart.minus({ days: 30 })) continue;
isStale(a, t) == a.dueISO < plusDays(viewStartOf(t), -STALE_DAYS)

\* variant: a.estimateMinutes || 60, which also replaces an estimate of 0
totalMinutesOf_falsy(a) ==
  Max(MIN_TOTAL_MINUTES,
      IF "estimateMinutes" \in DOMAIN a /\ a.estimateMinutes # 0
      THEN a.estimateMinutes ELSE DEFAULT_ESTIMATE)

\* Math.max(30, a.estimateMinutes ?? 60)
totalMinutesOf(a) ==
  Max(MIN_TOTAL_MINUTES,
      IF "estimateMinutes" \in DOMAIN a THEN a.estimateMinutes ELSE DEFAULT_ESTIMATE)

chunkCountOf(totalMinutes) == Max(1, Ceil(totalMinutes, CHUNK_MINUTES))

\* variant: the tiny tail is dropped instead of merged
RECURSIVE chunkLoop_dropTail(_, _, _, _)
chunkLoop_dropTail(i, chunkCount, totalMinutes, chunkMinutes) ==
  IF i >= chunkCount THEN chunkMinutes
  ELSE LET remaining == totalMinutes - i * CHUNK_MINUTES
           mins == Min(CHUNK_MINUTES, remaining)
       IN IF mins < MIN_LAST_CHUNK /\ Len(chunkMinutes) > 0
          THEN chunkMinutes
          ELSE chunkLoop_dropTail(i + 1, chunkCount, totalMinutes,
                                  Append(chunkMinutes, mins))

\* variant: a tail of exactly MIN_LAST_CHUNK minutes is merged too
RECURSIVE chunkLoop_mergeAtTen(_, _, _, _)
chunkLoop_mergeAtTen(i, chunkCount, totalMinutes, chunkMinutes) ==
  IF i >= chunkCount THEN chunkMinutes
  ELSE LET remaining == totalMinutes - i * CHUNK_MINUTES
           mins == Min(CHUNK_MINUTES, remaining)
       IN IF mins <= MIN_LAST_CHUNK /\ Len(chunkMinutes) > 0
          THEN [chunkMinutes EXCEPT ![Len(chunkMinutes)] = @ + mins]
          ELSE chunkLoop_mergeAtTen(i + 1, chunkCount, totalMinutes,
                                    Append(chunkMinutes, mins))

RECURSIVE chunkLoop(_, _, _, _)
chunkLoop(i, chunkCount, totalMinutes, chunkMinutes) ==
  IF i >= chunkCount THEN chunkMinutes
  ELSE LET remaining == totalMinutes - i * CHUNK_MINUTES
           mins == Min(CHUNK_MINUTES, remaining)
       IN IF mins < MIN_LAST_CHUNK /\ Len(chunkMinutes) > 0
          THEN [chunkMinutes EXCEPT ![Len(chunkMinutes)] = @ + mins]
          ELSE chunkLoop(i + 1, chunkCount, totalMinutes, Append(chunkMinutes, mins))

chunkMinutesOf(a) ==
  chunkLoop(0, chunkCountOf(totalMinutesOf(a)), totalMinutesOf(a), <<>>)

\* variant: the distance to the due day is taken without its sign
windowLenOf_abs(a, t) ==
  LET dueDay == startOfDay(a.dueISO)
      lastDay == Min(dueDay, viewEndOf(t))
      diff == diffDays(lastDay, viewStartOf(t))
  IN (IF diff < 0 THEN -diff ELSE diff) + 1

\* variant: the window always runs to the end of the view
windowLenOf_toViewEnd(a, t) ==
  LET windowDays == Max(0, diffDays(viewEndOf(t), viewStartOf(t)))
  IN windowDays + 1

\* windowLen = max(0, floor(min(dueDay, viewEnd).diff(viewStart, "days"))) + 1
windowLenOf(a, t) ==
  LET dueDay == startOfDay(a.dueISO)
      lastDay == Min(dueDay, viewEndOf(t))
      windowDays == Max(0, diffDays(lastDay, viewStartOf(t)))
  IN windowDays + 1

\* days[d] for d = 0 .. windowLen-1 (held here at positions 1 .. windowLen)
daysOf(t, windowLen) ==
  [d \in 1..windowLen |-> toISODate(plusDays(viewStartOf(t), d - 1))]

\* variant: the ratio is i / n instead of i / (n - 1)
dayIndexOf_overN(i, n, windowLen) ==
  IF windowLen = 1 THEN 0 ELSE Round(i * (windowLen - 1), n)

\* ratio = n === 1 ? 0 : i / (n - 1);  dayIndex = L === 1 ? 0 : round(ratio * (L - 1))
dayIndexOf(i, n, windowLen) ==
  LET ratioNum == IF n = 1 THEN 0 ELSE i
      ratioDen == IF n = 1 THEN 1 ELSE n - 1
  IN IF windowLen = 1 THEN 0 ELSE Round(ratioNum * (windowLen - 1), ratioDen)

overrideOf(ovs, key) == IF key \in DOMAIN ovs THEN ovs[key] ELSE EmptyObject

\* variant: an override day is clamped into the assignment's own window
chunkOf_localClamp(a, i, chunkMinutes, ovs, t) ==
  LET key == chunkKey(a.id, i)
      ov == overrideOf(ovs, key)
      windowLen == windowLenOf(a, t)
      days == daysOf(t, windowLen)
      dayIndex == dayIndexOf(i, Len(chunkMinutes), windowLen)
      defaultDayISO == days[dayIndex + 1]
      plannedDayISO ==
        clampToView(IF "dayISO" \in DOMAIN ov THEN ov.dayISO ELSE defaultDayISO,
                    days[1], days[windowLen])
  IN [key |-> key,
      assignmentId |-> a.id,
      dueISO |-> a.dueISO,
      dayISO |-> plannedDayISO,
      minutes |-> chunkMinutes[i + 1],
      done |-> ("done" \in DOMAIN ov /\ ov.done = TRUE)]

\* variant: an override day that is already past is ignored
chunkOf_dropPastOverride(a, i, chunkMinutes, ovs, t) ==
  LET key == chunkKey(a.id, i)
      ov == overrideOf(ovs, key)
      windowLen == windowLenOf(a, t)
      days == daysOf(t, windowLen)
      dayIndex == dayIndexOf(i, Len(chunkMinutes), windowLen)
      defaultDayISO == days[dayIndex + 1]
      plannedDayISO ==
        clampToView(IF "dayISO" \in DOMAIN ov /\ ov.dayISO >= toISODate(viewStartOf(t))
                    THEN ov.dayISO ELSE defaultDayISO,
                    toISODate(viewStartOf(t)), toISODate(viewEndOf(t)))
  IN [key |-> key,
      assignmentId |-> a.id,
      dueISO |-> a.dueISO,
      dayISO |-> plannedDayISO,
      minutes |-> chunkMinutes[i + 1],
      done |-> ("done" \in DOMAIN ov /\ ov.done = TRUE)]

chunkOf(a, i, chunkMinutes, ovs, t) ==
  LET key == chunkKey(a.id, i)
      ov == overrideOf(ovs, key)
      windowLen == windowLenOf(a, t)
      days == daysOf(t, windowLen)
      dayIndex == dayIndexOf(i, Len(chunkMinutes), windowLen)
      defaultDayISO == days[dayIndex + 1]
      plannedDayISO ==
        clampToView(IF "dayISO" \in DOMAIN ov THEN ov.dayISO ELSE defaultDayISO,
                    toISODate(viewStartOf(t)), toISODate(viewEndOf(t)))
  IN [key |-> key,
      assignmentId |-> a.id,
      dueISO |-> a.dueISO,
      dayISO |-> plannedDayISO,
      minutes |-> chunkMinutes[i + 1],
      done |-> ("done" \in DOMAIN ov /\ ov.done = TRUE)]

\* variant: chunks already marked done are left out of the plan
chunksOfAssignment_skipDone(a, ovs, t) ==
  IF isStale(a, t) THEN <<>>
  ELSE LET chunkMinutes == chunkMinutesOf(a)
           all == [k \in 1..Len(chunkMinutes) |-> chunkOf(a, k - 1, chunkMinutes, ovs, t)]
       IN SelectSeq(all, LAMBDA c : ~c.done)

chunksOfAssignment(a, ovs, t) ==
  IF isStale(a, t) THEN <<>>
  ELSE LET chunkMinutes == chunkMinutesOf(a)
       IN [k \in 1..Len(chunkMinutes) |-> chunkOf(a, k - 1, chunkMinutes, ovs, t)]

\* comparator of items.sort: new Date(a.dueISO) - new Date(b.dueISO) < 0
dueLess(a, b) == a.dueISO < b.dueISO

\* comparator of chunks.sort: by day, then by due instant
chunkLess(x, y) ==
  IF x.dayISO # y.dayISO THEN x.dayISO < y.dayISO ELSE x.dueISO < y.dueISO

\* Array.prototype.sort is stable: an element goes after the last one not greater
RECURSIVE insertByDue(_, _)
insertByDue(s, x) ==
  IF s = <<>> THEN <<x>>
  ELSE IF dueLess(x, s[Len(s)])
       THEN Append(insertByDue(SubSeq(s, 1, Len(s) - 1), x), s[Len(s)])
       ELSE Append(s, x)

RECURSIVE sortByDue(_)
sortByDue(s) ==
  IF s = <<>> THEN <<>>
  ELSE insertByDue(sortByDue(SubSeq(s, 1, Len(s) - 1)), s[Len(s)])

\* variant: an element goes before the elements it is equal to (unstable)
RECURSIVE insertChunk_unstable(_, _)
insertChunk_unstable(s, x) ==
  IF s = <<>> THEN <<x>>
  ELSE IF ~chunkLess(s[Len(s)], x)
       THEN Append(insertChunk_unstable(SubSeq(s, 1, Len(s) - 1), x), s[Len(s)])
       ELSE Append(s, x)

RECURSIVE insertChunk(_, _)
insertChunk(s, x) ==
  IF s = <<>> THEN <<x>>
  ELSE IF chunkLess(x, s[Len(s)])
       THEN Append(insertChunk(SubSeq(s, 1, Len(s) - 1), x), s[Len(s)])
       ELSE Append(s, x)

RECURSIVE sortChunks(_)
sortChunks(s) ==
  IF s = <<>> THEN <<>>
  ELSE insertChunk(sortChunks(SubSeq(s, 1, Len(s) - 1)), s[Len(s)])

RECURSIVE collectChunks(_, _, _)
collectChunks(sorted, ovs, t) ==
  IF sorted = <<>> THEN <<>>
  ELSE chunksOfAssignment(Head(sorted), ovs, t) \o collectChunks(Tail(sorted), ovs, t)

buildDayPlan(its, ovs, t) ==
  sortChunks(collectChunks(sortByDue(its), ovs, t))

(***************************************************************************)
(* PlanView.grouped: the plan grouped by day (the day label is left out)   *)
(***************************************************************************)
\* for (const c of plan) { if (!map.has(c.dayISO)) map.set(c.dayISO, []); ...push(c) }
RECURSIVE groupByDay(_, _)
groupByDay(p, map) ==
  IF p = <<>> THEN map
  ELSE LET c == Head(p)
           has == \E j \in 1..Len(map) : map[j].dayISO = c.dayISO
           map1 == IF has THEN map ELSE Append(map, [dayISO |-> c.dayISO, list |-> <<>>])
           map2 == [j \in 1..Len(map1) |->
                      IF map1[j].dayISO = c.dayISO
                      THEN [map1[j] EXCEPT !.list = Append(@, c)]
                      ELSE map1[j]]
       IN groupByDay(Tail(p), map2)

\* .sort((a, b) => (a[0] < b[0] ? -1 : 1))
RECURSIVE insertEntry(_, _)
insertEntry(s, x) ==
  IF s = <<>> THEN <<x>>
  ELSE IF x.dayISO < s[Len(s)].dayISO
       THEN Append(insertEntry(SubSeq(s, 1, Len(s) - 1), x), s[Len(s)])
       ELSE Append(s, x)

RECURSIVE sortEntries(_)
sortEntries(s) ==
  IF s = <<>> THEN <<>>
  ELSE insertEntry(sortEntries(SubSeq(s, 1, Len(s) - 1)), s[Len(s)])

RECURSIVE sumMinutes(_)
sumMinutes(list) ==
  IF list = <<>> THEN 0 ELSE Head(list).minutes + sumMinutes(Tail(list))

\* variant: the total counts only the chunks that are not done
groupTotal_remaining(list) == sumMinutes(SelectSeq(list, LAMBDA c : ~c.done))

\* list.reduce((acc, x) => acc + x.minutes, 0)
groupTotal(list) == sumMinutes(list)

groupedOf(p) ==
  LET entries == sortEntries(groupByDay(p, <<>>))
  IN [j \in 1..Len(entries) |->
        [dayISO |-> entries[j].dayISO,
         total |-> groupTotal(entries[j].list),
         list |-> entries[j].list]]

(***************************************************************************)
(* Inputs of the scheduler: the assignment list handed to PlanView, the    *)
(* override map loaded from storage, and the clock.                        *)
(***************************************************************************)
NowValues == {0, HoursPerDay + 9}

DueInstants ==
  {plusDays(0, -(STALE_DAYS + 1)) + 23,
   plusDays(0, -STALE_DAYS),
   plusDays(0, -STALE_DAYS) + 23,
   plusDays(0, -(STALE_DAYS - 1)),
   plusDays(0, 1) + 1}
  \cup {plusDays(0, d) + 12 : d \in (-1)..MaxDueAhead}

Estimates == (-NegEstimates)..MaxEstimate

SubjectId == "a"

OtherId == "b"

Subjects ==
  {[id |-> SubjectId, dueISO |-> d] : d \in DueInstants}
  \cup {[id |-> SubjectId, dueISO |-> d, estimateMinutes |-> e] :
          d \in DueInstants, e \in Estimates}

Other == [id |-> OtherId, dueISO |-> plusDays(0, 2) + 12]

\* an id that holds the separator of the chunk keys
BarId == "a|1"

Barred == [id |-> BarId, dueISO |-> plusDays(0, 1) + 12, estimateMinutes |-> 61]

ItemLists ==
  {<<>>} \cup {<<s>> : s \in Subjects}
  \cup {<<Other, s>> : s \in Subjects} \cup {<<s, Other>> : s \in Subjects}
  \cup {<<Barred, s>> : s \in Subjects}

OverrideDays == {-1, 3, MaxOverrideAhead + 1}

OverrideValues == {[done |-> TRUE]} \cup {[dayISO |-> d] : d \in OverrideDays}

OverrideMaps ==
  {EmptyObject}
  \cup {chunkKey(SubjectId, i) :> v : i \in 0..1, v \in OverrideValues}

(***************************************************************************)
(* PlanView: the plan is computed from the items, the overrides and the    *)
(* clock read inside buildDayPlan.                                         *)
(***************************************************************************)
\* useState("") / ("ALL") / ("ALL") / ("DUE_ASC"); a text is held as the
\* sequence of its characters
DefaultFilters ==
  [query |-> <<>>, courseFilter |-> "ALL", statusFilter |-> "ALL", sortOrder |-> "DUE_ASC"]

\* the page around the scheduler is not started
pageIdle ==
  /\ filters = DefaultFilters
  /\ filtered = <<>>
  /\ shown = <<>>
  /\ storage = [kind |-> "absent"]
  /\ itemsBlob = [kind |-> "absent"]
  /\ movingKey = ""
  /\ movingDate = Null
  /\ zone = 0
  /\ editingId = ""
  /\ form = [course |-> "", title |-> "", due |-> Null, notes |-> "", titleTouched |-> FALSE]
  /\ snack = [open |-> FALSE, message |-> ""]
  /\ nextId = 0
  /\ steps = 0

InitPlan ==
  /\ items \in ItemLists
  /\ overrides \in OverrideMaps
  /\ now \in NowValues
  /\ plan = <<>>
  /\ pc = "mount"
  /\ pageIdle

ComputePlan ==
  /\ pc = "mount"
  /\ plan' = buildDayPlan(items, overrides, now)
  /\ pc' = "planned"
  /\ UNCHANGED <<items, overrides, now, pageVars>>

\* the date advances by d days and the plan is computed again
AdvanceClock(d) ==
  /\ pc = "planned"
  /\ (now \div HoursPerDay) + d <= MaxToday
  /\ now' = plusDays(now, d)
  /\ plan' = buildDayPlan(items, overrides, now')
  /\ UNCHANGED <<items, overrides, pc, pageVars>>

NextPlan ==
  \/ ComputePlan
  \/ \E d \in 1..MaxToday : AdvanceClock(d)

SpecPlan == InitPlan /\ [][NextPlan]_vars

(***************************************************************************)
(* localStorage and JSON.  A stored text is absent, a text that is not     *)
(* JSON, or the JSON text of a value; null, a number and a string are the  *)
(* JSON values that are not objects.                                       *)
(***************************************************************************)
Absent == [kind |-> "absent"]

RawText(txt) == [kind |-> "text", text |-> txt]

JSONstringify(v) == [kind |-> "json", value |-> v]

JsNull == [primitive |-> "null"]

JsNumber == [primitive |-> "number"]

JsString == [primitive |-> "string"]

\* !raw: getItem returned null or the empty string
isFalsyRaw(raw) == raw.kind = "absent" \/ (raw.kind = "text" /\ raw.text = "")

\* JSON.parse throws a SyntaxError
parseThrows(raw) == raw.kind = "text"

loadOverrides(raw) ==
  IF isFalsyRaw(raw) THEN EmptyObject
  ELSE IF parseThrows(raw) THEN EmptyObject
  ELSE raw.value

saveOverrides(state) == JSONstringify(state)

loadAssignments(raw) ==
  IF isFalsyRaw(raw) THEN <<>>
  ELSE IF parseThrows(raw) THEN <<>>
  ELSE raw.value

saveAssignments(its) == JSONstringify(its)

\* overrides[key] is a TypeError when overrides is null and a chunk is looked up
renderThrows(its, ovs, t) ==
  ovs = JsNull /\ \E k \in 1..Len(its) : ~isStale(its[k], t)

\* { ...prev }: a number has no own properties, a string has its characters
spreadOf(prev) ==
  IF "primitive" \in DOMAIN prev
  THEN IF prev = JsString THEN "0" :> [char |-> "s"] ELSE EmptyObject
  ELSE prev

\* variant: the previous map is not spread into the new one
withEntry_dropOthers(map, key, entry) == key :> entry

withEntry(map, key, entry) ==
  [k \in DOMAIN map \cup {key} |-> IF k = key THEN entry ELSE map[k]]

\* variant: the previous entry is not spread into the new one
toggledEntry_dropDay(prev, key) ==
  LET old == overrideOf(prev, key)
      wasDone == IF "done" \in DOMAIN old THEN old.done ELSE FALSE
  IN [done |-> ~wasDone]

\* { ...(prev[key] ?? {}), done: !(prev[key]?.done ?? false) }
toggledEntry(prev, key) ==
  LET old == overrideOf(prev, key)
      wasDone == IF "done" \in DOMAIN old THEN old.done ELSE FALSE
  IN [f \in DOMAIN old \cup {"done"} |-> IF f = "done" THEN ~wasDone ELSE old[f]]

\* { ...(prev[movingKey] ?? {}), dayISO }
movedEntry(prev, key, dayISO) ==
  LET old == overrideOf(prev, key)
  IN [f \in DOMAIN old \cup {"dayISO"} |-> IF f = "dayISO" THEN dayISO ELSE old[f]]

\* DateTime.fromISO(dayISO): midnight of that day in the system zone
fromISOLocal(dayISO, z) == DT(dayISO * HoursPerDay - z)

(***************************************************************************)
(* The page: App (form and assignment list) around PlanView.  The clock    *)
(* does not advance within a session of the page.                          *)
(***************************************************************************)
PageNow == 9

Zones == {-3, 0, 5}

StoredAssignment ==
  [id |-> "a", course |-> "", title |-> "A", dueISO |-> plusDays(0, 2) + 12,
   notes |-> "", estimateMinutes |-> 61]

StoredItemBlobs == {Absent, JSONstringify(<<StoredAssignment>>)}

StoredOverrideBlobs ==
  {Absent, RawText(""), RawText("{oops"),
   JSONstringify(JsNull), JSONstringify(JsNumber), JSONstringify(JsString),
   JSONstringify(EmptyObject),
   JSONstringify(chunkKey("a", 0) :> [done |-> TRUE])}

TitleInputs == {" ", "T"}

DueInputs == {Null, InvalidDT, DT(plusDays(0, 1) + 12)}

PickDays == {1, MaxOverrideAhead + 1}

\* variant: the text is used untrimmed
Trim_untrimmed(str) == str

\* String.prototype.trim on the titles of the model
Trim(str) == IF str = " " THEN "" ELSE str

\* uid(): an id never produced before
uid(n) == "n" \o ToString(n)

blankForm(t) ==
  [course |-> "", title |-> "", due |-> DT(t), notes |-> "", titleTouched |-> FALSE]

(***************************************************************************)
(* App: the filtered list and the status chips.  The fields of an          *)
(* assignment are texts of at most one character; the search works on the  *)
(* sequences of their characters.                                          *)
(***************************************************************************)
charsOf(str) == IF str = "" THEN <<>> ELSE <<str>>

\* a.course ?? "", a.notes ?? ""
fieldOr(a, f) == IF f \in DOMAIN a THEN a[f] ELSE ""

toLowerCase(chars) ==
  [k \in 1..Len(chars) |->
     IF chars[k] = "T" THEN "t"
     ELSE IF chars[k] = "A" THEN "a"
     ELSE IF chars[k] = "C" THEN "c"
     ELSE chars[k]]

RECURSIVE trimStart(_)
trimStart(chars) ==
  IF chars # <<>> /\ Head(chars) = " " THEN trimStart(Tail(chars)) ELSE chars

RECURSIVE trimEnd(_)
trimEnd(chars) ==
  IF chars # <<>> /\ chars[Len(chars)] = " "
  THEN trimEnd(SubSeq(chars, 1, Len(chars) - 1))
  ELSE chars

trimChars(chars) == trimEnd(trimStart(chars))

\* String.prototype.includes
includes(hay, q) ==
  \E i \in 1..(Len(hay) - Len(q) + 1) : SubSeq(hay, i, i + Len(q) - 1) = q

\* `${a.title} ${a.course ?? ""} ${a.notes ?? ""}`.toLowerCase().includes(q)
matchesQuery(a, f) ==
  LET q == toLowerCase(trimChars(f.query))
      hay == toLowerCase(charsOf(a.title) \o <<" ">> \o charsOf(fieldOr(a, "course"))
                         \o <<" ">> \o charsOf(fieldOr(a, "notes")))
  IN q = <<>> \/ includes(hay, q)

matchesCourse(a, f) ==
  f.courseFilter = "ALL" \/ Trim(fieldOr(a, "course")) = f.courseFilter

matchesStatus(a, f, t) ==
  LET diffHours == a.dueISO - t
  IN CASE f.statusFilter = "OVERDUE" -> diffHours < 0
       [] f.statusFilter = "DUESOON" -> diffHours >= 0 /\ diffHours <= 48
       [] f.statusFilter = "UPCOMING" -> diffHours > 48
       [] OTHER -> TRUE

\* comparator of the list sort: tA - tB for DUE_ASC, tB - tA otherwise
listLess(a, b, order) ==
  IF order = "DUE_ASC" THEN a.dueISO < b.dueISO ELSE b.dueISO < a.dueISO

\* variant: the list is always sorted by ascending due instant
insertByOrder_alwaysAsc(s, x, order) ==
  LET before == {k \in 1..Len(s) : \A m \in k..Len(s) : x.dueISO < s[m].dueISO}
      at == IF before = {} THEN Len(s) + 1
            ELSE CHOOSE k \in before : \A m \in before : k <= m
  IN SubSeq(s, 1, at - 1) \o <<x>> \o SubSeq(s, at, Len(s))

\* Array.prototype.sort is stable: x goes after the elements it is not below
insertByOrder(s, x, order) ==
  LET before == {k \in 1..Len(s) : \A m \in k..Len(s) : listLess(x, s[m], order)}
      at == IF before = {} THEN Len(s) + 1
            ELSE CHOOSE k \in before : \A m \in before : k <= m
  IN SubSeq(s, 1, at - 1) \o <<x>> \o SubSeq(s, at, Len(s))

RECURSIVE sortList(_, _)
sortList(s, order) ==
  IF s = <<>> THEN <<>>
  ELSE insertByOrder(sortList(SubSeq(s, 1, Len(s) - 1), order), s[Len(s)], order)

\* items.filter(matchesQuery).filter(matchesCourse).filter(matchesStatus).sort(..)
filteredOf(its, f, t) ==
  sortList(SelectSeq(SelectSeq(SelectSeq(its,
             LAMBDA a : matchesQuery(a, f)),
             LAMBDA a : matchesCourse(a, f)),
             LAMBDA a : matchesStatus(a, f, t)),
           f.sortOrder)

dueChip(dueISO, t) ==
  LET diffHours == dueISO - t
  IN IF diffHours < 0 THEN "Overdue"
     ELSE IF diffHours <= 48 THEN "Due soon"
     ELSE "Upcoming"

\* the rows AssignmentList renders: filtered.map(a => ... dueChip(a.dueISO))
listOf(list, t) ==
  [k \in 1..Len(list) |-> [id |-> list[k].id, chip |-> dueChip(list[k].dueISO, t)]]

Init ==
  /\ pc = "boot"
  /\ filters = DefaultFilters
  /\ filtered = <<>>
  /\ shown = <<>>
  /\ storage \in StoredOverrideBlobs
  /\ itemsBlob \in StoredItemBlobs
  /\ zone \in Zones
  /\ now = PageNow
  /\ items = <<>>
  /\ overrides = EmptyObject
  /\ plan = <<>>
  /\ movingKey = ""
  /\ movingDate = Null
  /\ editingId = ""
  /\ form = blankForm(PageNow)
  /\ snack = [open |-> FALSE, message |-> ""]
  /\ nextId = 0
  /\ steps = 0

\* variant: the save effect writes the override map of the previous render
Commit_staleSave(its, ovs, setItems, setOverrides) ==
  IF renderThrows(its, ovs, now)
  THEN /\ pc' = "crashed"
       /\ plan' = <<>>
       /\ filtered' = <<>>
       /\ shown' = <<>>
       /\ UNCHANGED <<storage, itemsBlob>>
  ELSE /\ pc' = "ready"
       /\ plan' = buildDayPlan(its, ovs, now)
       /\ filtered' = IF setItems THEN filteredOf(its, filters', now) ELSE filtered
       /\ shown' = IF setItems THEN listOf(filtered', now) ELSE shown
       /\ storage' = IF setOverrides THEN saveOverrides(overrides) ELSE storage
       /\ itemsBlob' = IF setItems THEN saveAssignments(its) ELSE itemsBlob

\* render with the new list and map, then run the effects of what was set;
\* App renders again, and recomputes its filtered list, when the list was set
Commit(its, ovs, setItems, setOverrides) ==
  IF renderThrows(its, ovs, now)
  THEN /\ pc' = "crashed"
       /\ plan' = <<>>
       /\ filtered' = <<>>
       /\ shown' = <<>>
       /\ UNCHANGED <<storage, itemsBlob>>
  ELSE /\ pc' = "ready"
       /\ plan' = buildDayPlan(its, ovs, now)
       /\ filtered' = IF setItems THEN filteredOf(its, filters', now) ELSE filtered
       /\ shown' = IF setItems THEN listOf(filtered', now) ELSE shown
       /\ storage' = IF setOverrides THEN saveOverrides(ovs) ELSE storage
       /\ itemsBlob' = IF setItems THEN saveAssignments(its) ELSE itemsBlob

\* first render of the page: both lists are loaded, both effects run
Start ==
  /\ items' = loadAssignments(itemsBlob)
  /\ overrides' = loadOverrides(storage)
  /\ movingKey' = ""
  /\ movingDate' = Null
  /\ editingId' = ""
  /\ form' = blankForm(now)
  /\ snack' = [open |-> FALSE, message |-> ""]
  /\ filters' = DefaultFilters
  /\ Commit(items', overrides', TRUE, TRUE)
  /\ UNCHANGED <<now, zone, nextId>>

Mount ==
  /\ pc = "boot"
  /\ Start
  /\ UNCHANGED steps

Reload ==
  /\ pc \in {"ready", "crashed"}
  /\ steps < MaxSteps
  /\ steps' = steps + 1
  /\ Start

\* a user event on the page outside the move-day dialog
PageEvent ==
  /\ pc = "ready"
  /\ movingKey = ""
  /\ steps < MaxSteps
  /\ steps' = steps + 1

\* a user event inside the (modal) move-day dialog
DialogEvent ==
  /\ pc = "ready"
  /\ movingKey # ""
  /\ steps < MaxSteps
  /\ steps' = steps + 1

planViewVars == <<overrides, plan, pc, storage, movingKey, movingDate>>

\* App renders again without a change of the list or the filters: the
\* memoised list is kept and its rows are rendered with the clock of now
rerenderApp ==
  /\ shown' = listOf(filtered, now)
  /\ UNCHANGED <<filters, filtered>>

\* a setter called with the value it already holds renders nothing
noRender == UNCHANGED <<filters, filtered, shown>>

SetTitle(v) ==
  /\ PageEvent
  /\ form' = [form EXCEPT !.title = v]
  /\ IF v # form.title THEN rerenderApp ELSE noRender
  /\ UNCHANGED <<items, itemsBlob, editingId, snack, nextId, now, zone, planViewVars>>

SetDue(v) ==
  /\ PageEvent
  /\ form' = [form EXCEPT !.due = v]
  /\ IF v # form.due THEN rerenderApp ELSE noRender
  /\ UNCHANGED <<items, itemsBlob, editingId, snack, nextId, now, zone, planViewVars>>

showError(message) ==
  /\ snack' = [open |-> TRUE, message |-> message]
  /\ form' = [form EXCEPT !.titleTouched = TRUE]
  /\ rerenderApp
  /\ UNCHANGED <<items, itemsBlob, editingId, nextId, planViewVars>>

resetFormState ==
  /\ editingId' = ""
  /\ form' = blankForm(now)

\* variant: the edited item is built anew from the form instead of spread
OnSubmit_rebuildItem ==
  /\ PageEvent
  /\ IF Trim(form.title) = "" THEN showError("Please enter a title.")
     ELSE IF form.due = Null THEN showError("Please choose a due date and time.")
     ELSE IF ~isDT(form.due) THEN showError("Invalid due date. Please pick again.")
     ELSE /\ IF editingId # ""
             THEN /\ items' = [k \in 1..Len(items) |->
                                 IF items[k].id = editingId
                                 THEN [id |-> items[k].id,
                                       course |-> Trim(form.course),
                                       title |-> Trim(form.title),
                                       dueISO |-> form.due.t,
                                       notes |-> Trim(form.notes)]
                                 ELSE items[k]]
                  /\ UNCHANGED nextId
             ELSE /\ nextId < MaxNew
                  /\ items' = <<[id |-> uid(nextId),
                                 course |-> Trim(form.course),
                                 title |-> Trim(form.title),
                                 dueISO |-> form.due.t,
                                 notes |-> Trim(form.notes)]>> \o items
                  /\ nextId' = nextId + 1
          /\ resetFormState
          /\ UNCHANGED filters
          /\ Commit(items', overrides, TRUE, FALSE)
          /\ UNCHANGED <<snack, overrides, movingKey, movingDate>>
  /\ UNCHANGED <<now, zone>>

OnSubmit ==
  /\ PageEvent
  /\ IF Trim(form.title) = "" THEN showError("Please enter a title.")
     ELSE IF form.due = Null THEN showError("Please choose a due date and time.")
     ELSE IF ~isDT(form.due) THEN showError("Invalid due date. Please pick again.")
     ELSE /\ IF editingId # ""
             THEN /\ items' = [k \in 1..Len(items) |->
                                 IF items[k].id = editingId
                                 THEN [items[k] EXCEPT !.course = Trim(form.course),
                                                       !.title = Trim(form.title),
                                                       !.dueISO = form.due.t,
                                                       !.notes = Trim(form.notes)]
                                 ELSE items[k]]
                  /\ UNCHANGED nextId
             ELSE /\ nextId < MaxNew
                  /\ items' = <<[id |-> uid(nextId),
                                 course |-> Trim(form.course),
                                 title |-> Trim(form.title),
                                 dueISO |-> form.due.t,
                                 notes |-> Trim(form.notes)]>> \o items
                  /\ nextId' = nextId + 1
          /\ resetFormState
          /\ UNCHANGED filters
          /\ Commit(items', overrides, TRUE, FALSE)
          /\ UNCHANGED <<snack, overrides, movingKey, movingDate>>
  /\ UNCHANGED <<now, zone>>

ResetForm ==
  /\ PageEvent
  /\ resetFormState
  /\ rerenderApp
  /\ UNCHANGED <<items, itemsBlob, snack, nextId, now, zone, planViewVars>>

StartEdit(a) ==
  /\ PageEvent
  /\ editingId' = a.id
  /\ form' = [course |-> a.course, title |-> a.title, due |-> DT(a.dueISO),
              notes |-> a.notes, titleTouched |-> FALSE]
  /\ rerenderApp
  /\ UNCHANGED <<items, itemsBlob, snack, nextId, now, zone, planViewVars>>

\* variant: the form is not reset when the assignment being edited is removed
Remove_keepEditing(id) ==
  /\ PageEvent
  /\ items' = SelectSeq(items, LAMBDA x : x.id # id)
  /\ UNCHANGED <<editingId, form>>
  /\ UNCHANGED filters
  /\ Commit(items', overrides, TRUE, FALSE)
  /\ UNCHANGED <<snack, nextId, now, zone, overrides, movingKey, movingDate>>

\* variant: the override entries of the removed assignment's chunks are purged
Remove_purgeOverrides(id) ==
  /\ PageEvent
  /\ items' = SelectSeq(items, LAMBDA x : x.id # id)
  /\ IF editingId = id THEN resetFormState ELSE UNCHANGED <<editingId, form>>
  /\ overrides' =
       LET purged == {plan[j].key : j \in {i \in 1..Len(plan) : plan[i].assignmentId = id}}
           map == spreadOf(overrides)
       IN [k \in DOMAIN map \ purged |-> map[k]]
  /\ UNCHANGED filters
  /\ Commit(items', overrides', TRUE, TRUE)
  /\ UNCHANGED <<snack, nextId, now, zone, movingKey, movingDate>>

Remove(id) ==
  /\ PageEvent
  /\ items' = SelectSeq(items, LAMBDA x : x.id # id)
  /\ IF editingId = id THEN resetFormState ELSE UNCHANGED <<editingId, form>>
  /\ UNCHANGED filters
  /\ Commit(items', overrides, TRUE, FALSE)
  /\ UNCHANGED <<snack, nextId, now, zone, overrides, movingKey, movingDate>>

CloseSnack ==
  /\ PageEvent
  /\ snack.open
  /\ snack' = [snack EXCEPT !.open = FALSE]
  /\ rerenderApp
  /\ UNCHANGED <<items, itemsBlob, editingId, form, nextId, now, zone, planViewVars>>

appVars == <<items, itemsBlob, editingId, form, snack, nextId, filters, filtered, shown>>

toggleDone(key) ==
  /\ PageEvent
  /\ overrides' = withEntry(spreadOf(overrides), key, toggledEntry(overrides, key))
  /\ Commit(items, overrides', FALSE, TRUE)
  /\ UNCHANGED <<appVars, now, zone, movingKey, movingDate>>

openMoveDay(chunk) ==
  /\ PageEvent
  /\ movingKey' = chunk.key
  /\ movingDate' = fromISOLocal(chunk.dayISO, zone)
  /\ UNCHANGED <<appVars, now, zone, overrides, plan, pc, storage>>

\* DatePicker onChange: a day picked in the picker, or the field cleared
setMovingDate(v) ==
  /\ DialogEvent
  /\ movingDate' = v
  /\ UNCHANGED <<appVars, now, zone, overrides, plan, pc, storage, movingKey>>

saveMoveDay ==
  /\ DialogEvent
  /\ movingKey' = ""
  /\ IF ~isDT(movingDate)
     THEN UNCHANGED <<overrides, plan, pc, storage, itemsBlob, filtered, shown>>
     ELSE /\ overrides' = withEntry(spreadOf(overrides), movingKey,
                                    movedEntry(overrides, movingKey, toISODate(movingDate.t)))
          /\ Commit(items, overrides', FALSE, TRUE)
  /\ UNCHANGED <<items, editingId, form, snack, nextId, now, zone, movingDate, filters>>

cancelMoveDay ==
  /\ DialogEvent
  /\ movingKey' = ""
  /\ UNCHANGED <<appVars, now, zone, overrides, plan, pc, storage, movingDate>>

Next ==
  \/ Mount
  \/ Reload
  \/ \E v \in TitleInputs : SetTitle(v)
  \/ \E v \in DueInputs : SetDue(v)
  \/ OnSubmit
  \/ ResetForm
  \/ \E k \in 1..Len(items) : StartEdit(items[k])
  \/ \E k \in 1..Len(items) : Remove(items[k].id)
  \/ CloseSnack
  \/ \E j \in 1..Len(plan) : toggleDone(plan[j].key)
  \/ \E j \in 1..Len(plan) : openMoveDay(plan[j])
  \/ \E v \in {Null} \cup {DT(plusDays(0, d)) : d \in PickDays} : setMovingDate(v)
  \/ saveMoveDay
  \/ cancelMoveDay

Spec == Init /\ [][Next]_vars

(***************************************************************************)
(* App alone: the form, the list with its filters, and a clock that        *)
(* advances between the events.                                            *)
(***************************************************************************)
AppX == [id |-> "x", course |-> "C", title |-> "T", dueISO |-> 20, notes |-> ""]

AppY == [id |-> "y", course |-> "", title |-> "A", dueISO |-> plusDays(0, 2) + 12,
         notes |-> "t", estimateMinutes |-> 61]

AppItemBlobs == {Absent, JSONstringify(<<AppY, AppX>>)}

QueryInputs == {<<>>, <<"T">>, <<" ", "T", " ", "c">>}

CourseInputs == {"ALL", "C"}

StatusInputs == {"ALL", "OVERDUE", "DUESOON", "UPCOMING"}

SortInputs == {"DUE_ASC", "DUE_DESC"}

TickHours == {HoursPerDay}

InitApp ==
  /\ pc = "boot"
  /\ filters = DefaultFilters
  /\ filtered = <<>>
  /\ shown = <<>>
  /\ storage = Absent
  /\ itemsBlob \in AppItemBlobs
  /\ zone = 0
  /\ now = PageNow
  /\ items = <<>>
  /\ overrides = EmptyObject
  /\ plan = <<>>
  /\ movingKey = ""
  /\ movingDate = Null
  /\ editingId = ""
  /\ form = blankForm(PageNow)
  /\ snack = [open |-> FALSE, message |-> ""]
  /\ nextId = 0
  /\ steps = 0

\* a filter setter: the memoised list is computed again when a filter changed
setFilters(f) ==
  /\ PageEvent
  /\ filters' = f
  /\ IF f # filters
     THEN /\ filtered' = filteredOf(items, f, now)
          /\ shown' = listOf(filtered', now)
     ELSE UNCHANGED <<filtered, shown>>
  /\ UNCHANGED <<items, itemsBlob, editingId, form, snack, nextId, now, zone, planViewVars>>

SetQuery(v) == setFilters([filters EXCEPT !.query = v])

SetCourseFilter(v) == setFilters([filters EXCEPT !.courseFilter = v])

SetStatusFilter(v) == setFilters([filters EXCEPT !.statusFilter = v])

SetSortOrder(v) == setFilters([filters EXCEPT !.sortOrder = v])

ClearFilters == setFilters(DefaultFilters)

\* time passes; nothing is rendered
Tick(d) ==
  /\ pc = "ready"
  /\ now + d <= PageNow + MaxElapsed
  /\ now' = now + d
  /\ UNCHANGED <<items, overrides, plan, pc, pageVars>>

NextApp ==
  \/ Mount
  \/ ClearFilters
  \/ Reload
  \/ \E v \in TitleInputs : SetTitle(v)
  \/ \E v \in DueInputs : SetDue(v)
  \/ OnSubmit
  \/ ResetForm
  \/ \E k \in 1..Len(items) : StartEdit(items[k])
  \/ \E k \in 1..Len(items) : Remove(items[k].id)
  \/ CloseSnack
  \/ \E v \in QueryInputs : SetQuery(v)
  \/ \E v \in CourseInputs : SetCourseFilter(v)
  \/ \E v \in StatusInputs : SetStatusFilter(v)
  \/ \E v \in SortInputs : SetSortOrder(v)
  \/ \E d \in TickHours : Tick(d)

SpecApp == InitApp /\ [][NextApp]_vars

(***************************************************************************)
(* Observations on a computed plan                                         *)
(***************************************************************************)
Planned == pc = "planned"

today == now \div HoursPerDay

ItemIndexes == 1..Len(items)

hasEstimate(a) == "estimateMinutes" \in DOMAIN a

dueDayOf(a) == a.dueISO \div HoursPerDay

\* the assignment is excluded by the stale-item filter
dueBeforeCutoff(a) == a.dueISO < (today - 30) * HoursPerDay

planChunksOf(id) == SelectSeq(plan, LAMBDA c : c.assignmentId = id)

chunkCountIn(id) == Len(planChunksOf(id))

chunkWithKey(k) == CHOOSE c \in {plan[j] : j \in 1..Len(plan)} : c.key = k

\* minutes of the chunks of an assignment, by chunk index
minutesIn(id) ==
  [k \in 1..chunkCountIn(id) |-> chunkWithKey(chunkKey(id, k - 1)).minutes]

RECURSIVE SumSeq(_)
SumSeq(s) == IF s = <<>> THEN 0 ELSE Head(s) + SumSeq(Tail(s))

hasDayOverride(k) == k \in DOMAIN overrides /\ "dayISO" \in DOMAIN overrides[k]

(***************************************************************************)
(* Claims about the day plan                                               *)
(***************************************************************************)

\* the total the claims call M: 60 without an estimate, else at least 30
clampedTotal(a) ==
  IF ~hasEstimate(a) THEN 60
  ELSE IF a.estimateMinutes < 30 THEN 30 ELSE a.estimateMinutes

\* C1: the minutes of the chunks planned for an assignment sum to exactly
\* its total minutes, whether or not the tail merge fires and whatever the
\* overrides are.
C1_ChunkMinutesSumToTotal ==
  Planned =>
    \A k \in ItemIndexes :
      chunkCountIn(items[k].id) > 0 =>
        SumSeq(minutesIn(items[k].id)) = Max(30, clampedTotal(items[k]))

\* C1 witness: a planned assignment whose tail was merged, under an override
C1_Witness ==
  /\ Planned
  /\ overrides # EmptyObject
  /\ \E k \in ItemIndexes :
       /\ hasEstimate(items[k])
       /\ items[k].estimateMinutes = 95
       /\ minutesIn(items[k].id) = <<30, 30, 35>>

\* C2: every chunk of the plan is on a day of the window today .. today+6,
\* for every override day and every due date.
C2_ChunkDayInWindow ==
  Planned =>
    \A j \in 1..Len(plan) : today <= plan[j].dayISO /\ plan[j].dayISO <= today + 6

\* C2 witness: an override day past the window end is planned on today+6
\* for an assignment that is overdue
C2_Witness ==
  /\ Planned
  /\ \E j \in 1..Len(plan) :
       /\ hasDayOverride(plan[j].key)
       /\ overrides[plan[j].key].dayISO > today + 6
       /\ plan[j].dueISO < now
       /\ plan[j].dayISO = today + 6

\* C3: an assignment due more than 30 days before the start of today has
\* no chunk, and any other assignment has at least one.
C3_StaleExcludedOthersPlanned ==
  Planned =>
    \A k \in ItemIndexes :
      /\ dueBeforeCutoff(items[k]) => chunkCountIn(items[k].id) = 0
      /\ ~dueBeforeCutoff(items[k]) => chunkCountIn(items[k].id) >= 1

\* C3 witness: one assignment due exactly 30 days before the start of today
\* is planned
C3_Witness ==
  /\ Planned
  /\ \E k \in ItemIndexes :
       /\ items[k].dueISO = (today - 30) * HoursPerDay
       /\ chunkCountIn(items[k].id) >= 1

expectedChunks(M) ==
  LET q == M \div 30
      r == M % 30
  IN IF r = 0 THEN [k \in 1..q |-> 30]
     ELSE IF r >= 10 THEN [k \in 1..(q + 1) |-> IF k <= q THEN 30 ELSE r]
     ELSE [k \in 1..q |-> IF k < q THEN 30 ELSE 30 + r]

\* C5: the chunk list is M/30 chunks of 30 (r = 0), floor(M/30) chunks of 30
\* and one of r (r >= 10), or floor(M/30)-1 chunks of 30 and one of 30+r
\* (0 < r < 10); the count is ceil(M/30) or one fewer on a merge, at least 1.
C5_ChunkListShape ==
  Planned =>
    \A k \in ItemIndexes :
      ~dueBeforeCutoff(items[k]) =>
        LET M == clampedTotal(items[k])
            r == M % 30
            ceil == (M + 29) \div 30
            n == chunkCountIn(items[k].id)
        IN /\ minutesIn(items[k].id) = expectedChunks(M)
           /\ n = IF 0 < r /\ r < 10 THEN ceil - 1 ELSE ceil
           /\ n >= 1
           /\ M = 60 => minutesIn(items[k].id) = <<30, 30>>

\* C5 witness: a total of 39 minutes, merged into a single chunk
C5_Witness ==
  /\ Planned
  /\ \E k \in ItemIndexes :
       /\ clampedTotal(items[k]) = 39
       /\ minutesIn(items[k].id) = <<39>>

\* an assignment planned with a total of exactly M minutes
plannedWithTotal(k, M) ==
  /\ ~dueBeforeCutoff(items[k])
  /\ clampedTotal(items[k]) = M

\* C6 as stated: a total of 70 minutes is planned as the chunks [30, 40]
C6_Original ==
  Planned =>
    \A k \in ItemIndexes :
      plannedWithTotal(k, 70) => minutesIn(items[k].id) = <<30, 40>>

\* C6 (amended): a total of 70 minutes is planned as the chunks [30, 30, 10];
\* a remainder of exactly 10 is not merged.
C6_SeventyIsThreeChunks ==
  Planned =>
    \A k \in ItemIndexes :
      plannedWithTotal(k, 70) => minutesIn(items[k].id) = <<30, 30, 10>>

\* C6 witness: an assignment with an estimate of 70 is in a computed plan
C6_Witness ==
  /\ Planned
  /\ \E k \in ItemIndexes : plannedWithTotal(k, 70) /\ chunkCountIn(items[k].id) = 3

\* C7 as stated: a total of 61 minutes is planned as the single chunk [31]
C7_Original ==
  Planned =>
    \A k \in ItemIndexes :
      plannedWithTotal(k, 61) => minutesIn(items[k].id) = <<31>>

\* C7 (amended): a total of 61 minutes is planned as the chunks [30, 31];
\* the 1-minute remainder merges into the second chunk.
C7_SixtyOneMergesIntoSecond ==
  Planned =>
    \A k \in ItemIndexes :
      plannedWithTotal(k, 61) => minutesIn(items[k].id) = <<30, 31>>

\* C7 witness: an assignment with an estimate of 61 is in a computed plan
C7_Witness ==
  /\ Planned
  /\ \E k \in ItemIndexes : plannedWithTotal(k, 61) /\ chunkCountIn(items[k].id) = 2

\* C8 as stated: every chunk has between 1 and 30 minutes
C8_Original ==
  Planned => \A j \in 1..Len(plan) : plan[j].minutes >= 1 /\ plan[j].minutes <= 30

\* the chunk is the last one (highest index) of its assignment
isLastChunk(c) == c.key = chunkKey(c.assignmentId, chunkCountIn(c.assignmentId) - 1)

\* C8 (amended): every chunk has between 1 and 39 minutes, and more than 30
\* only as the last chunk of an assignment whose total leaves a remainder r
\* of 1..9 over a multiple of 30, where it has 30 + r minutes.
C8_ChunkMinutesBounded ==
  Planned =>
    \A j \in 1..Len(plan) :
      LET c == plan[j]
          r == SumSeq(minutesIn(c.assignmentId)) % 30
      IN /\ c.minutes >= 1
         /\ c.minutes <= 39
         /\ c.minutes > 30 => isLastChunk(c) /\ r >= 1 /\ r <= 9 /\ c.minutes = 30 + r
         /\ ~isLastChunk(c) => c.minutes = 30

\* C8 witness: a merged last chunk of 39 minutes after a chunk of 30
C8_Witness ==
  /\ Planned
  /\ \E j \in 1..Len(plan) :
       /\ plan[j].minutes = 39
       /\ isLastChunk(plan[j])
       /\ chunkCountIn(plan[j].assignmentId) = 2

\* length of the local window of an assignment, as the claims define it
localWindow(a) == Max(1, 1 + (Min(dueDayOf(a), today + 6) - today))

\* round(i/(n-1) * (L-1)) with halves rounding up, 0 for a single chunk
expectedDayIndex(i, n, L) ==
  IF n > 1 THEN (2 * i * (L - 1) + (n - 1)) \div (2 * (n - 1)) ELSE 0

\* C9: without a day override, chunk i of n of an assignment with a local
\* window of L days is on day index round(i/(n-1) * (L-1)) from today
\* (halves rounding up) when n > 1, and on today when n = 1.
C9_DefaultDayIndex ==
  Planned =>
    \A k \in ItemIndexes :
      LET a == items[k]
          n == chunkCountIn(a.id)
      IN \A i \in 0..(n - 1) :
           ~hasDayOverride(chunkKey(a.id, i)) =>
             chunkWithKey(chunkKey(a.id, i)).dayISO
               = today + expectedDayIndex(i, n, localWindow(a))

\* C9 witness: the middle chunk of three over a two-day window sits at
\* index round(0.5) = 1
C9_Witness ==
  /\ Planned
  /\ \E k \in ItemIndexes :
       /\ chunkCountIn(items[k].id) = 3
       /\ localWindow(items[k]) = 2
       /\ ~hasDayOverride(chunkKey(items[k].id, 1))
       /\ chunkWithKey(chunkKey(items[k].id, 1)).dayISO = today + 1

noDayOverrides(id) ==
  \A i \in 0..(chunkCountIn(id) - 1) : ~hasDayOverride(chunkKey(id, i))

\* C10 as stated: without day overrides, an assignment due today or later
\* has its first chunk on today and its last chunk on min(due day, today+6),
\* for every chunk count including 1
C10_Original ==
  Planned =>
    \A k \in ItemIndexes :
      LET a == items[k]
          n == chunkCountIn(a.id)
      IN n >= 1 /\ noDayOverrides(a.id) /\ dueDayOf(a) >= today =>
           /\ chunkWithKey(chunkKey(a.id, 0)).dayISO = today
           /\ chunkWithKey(chunkKey(a.id, n - 1)).dayISO = Min(dueDayOf(a), today + 6)

\* C10 (amended): without day overrides, an assignment due today or later
\* has its first chunk on today; with two or more chunks its last chunk is
\* on min(due day, today+6); a single chunk is on today.
C10_FirstTodayLastOnDueDay ==
  Planned =>
    \A k \in ItemIndexes :
      LET a == items[k]
          n == chunkCountIn(a.id)
      IN n >= 1 /\ noDayOverrides(a.id) /\ dueDayOf(a) >= today =>
           /\ chunkWithKey(chunkKey(a.id, 0)).dayISO = today
           /\ n >= 2 =>
                chunkWithKey(chunkKey(a.id, n - 1)).dayISO = Min(dueDayOf(a), today + 6)
           /\ n = 1 => chunkWithKey(chunkKey(a.id, 0)).dayISO = today

\* C10 witness: an assignment due past the window, several chunks, the last
\* one on today+6
C10_Witness ==
  /\ Planned
  /\ \E k \in ItemIndexes :
       /\ chunkCountIn(items[k].id) >= 2
       /\ noDayOverrides(items[k].id)
       /\ dueDayOf(items[k]) > today + 6
       /\ chunkWithKey(chunkKey(items[k].id, chunkCountIn(items[k].id) - 1)).dayISO
            = today + 6

\* C11: without day overrides, every chunk of an assignment that is overdue
\* by its day (but not stale) is on today, whatever its number of chunks.
C11_OverdueAllOnToday ==
  Planned =>
    \A k \in ItemIndexes :
      LET a == items[k]
      IN ~dueBeforeCutoff(a) /\ dueDayOf(a) < today /\ noDayOverrides(a.id) =>
           \A j \in 1..Len(plan) :
             plan[j].assignmentId = a.id => plan[j].dayISO = today

\* C11 witness: an assignment due yesterday with four chunks, all on today
C11_Witness ==
  /\ Planned
  /\ \E k \in ItemIndexes :
       /\ dueDayOf(items[k]) = today - 1
       /\ noDayOverrides(items[k].id)
       /\ chunkCountIn(items[k].id) = 4
       /\ \A i \in 0..3 : chunkWithKey(chunkKey(items[k].id, i)).dayISO = today

\* the day the claims give for an override day D
clampedOverrideDay(D, first) ==
  IF D < first THEN first ELSE IF D > first + 6 THEN first + 6 ELSE D

\* C12: a chunk with an override day D is planned on today when D < today,
\* on today+6 when D > today+6 and on D otherwise, whatever the due day of
\* its assignment; computing the plan leaves the stored override unchanged.
C12_OverrideDayClamped ==
  /\ [](Planned =>
          \A j \in 1..Len(plan) :
            hasDayOverride(plan[j].key) =>
              plan[j].dayISO = clampedOverrideDay(overrides[plan[j].key].dayISO, today))
  /\ [][overrides' = overrides]_vars

\* C12 witness: a chunk of an assignment due today is planned on the
\* in-window override day three days later
C12_Witness ==
  /\ Planned
  /\ \E j \in 1..Len(plan) :
       /\ hasDayOverride(plan[j].key)
       /\ plan[j].dueISO \div HoursPerDay = today
       /\ overrides[plan[j].key].dayISO > today
       /\ overrides[plan[j].key].dayISO <= today + 6
       /\ plan[j].dayISO = overrides[plan[j].key].dayISO

\* the chunk keys of a plan with the minutes of each
keyMinutes(p) == {<<p[j].key, p[j].minutes>> : j \in 1..Len(p)}

\* C13: the chunk keys and the minutes of each key are those of the plan
\* computed with no override at all: an override adds, removes, renames or
\* resizes no chunk.
C13_KeysIndependentOfOverrides ==
  Planned =>
    LET bare == buildDayPlan(items, EmptyObject, now)
    IN /\ Len(plan) = Len(bare)
       /\ keyMinutes(plan) = keyMinutes(bare)

\* C13 witness: a plan computed under a done override and one under a day
\* override that moves a chunk
C13_Witness ==
  /\ Planned
  /\ \E j \in 1..Len(plan) :
       /\ plan[j].key \in DOMAIN overrides
       /\ \/ plan[j].done
          \/ plan[j] \notin {buildDayPlan(items, EmptyObject, now)[i] : i \in 1..Len(plan)}

hasKey(p, k) == \E j \in 1..Len(p) : p[j].key = k

chunkOfPlan(p, k) == CHOOSE c \in {p[j] : j \in 1..Len(p)} : c.key = k

\* C15: when the date advances and an assignment is still not stale, each of
\* its chunks keeps its key and minutes, a done chunk stays done, and a chunk
\* with an override day is planned on that day clamped into the new window.
C15_OverridesSurviveDateChange ==
  [][now' > now =>
       \A k \in ItemIndexes :
         LET a == items[k]
             newToday == now' \div HoursPerDay
         IN a.dueISO >= (newToday - 30) * HoursPerDay =>
              /\ {c \in keyMinutes(plan) : hasKey(planChunksOf(a.id), c[1])}
                   = {c \in keyMinutes(plan') : chunkOfPlan(plan', c[1]).assignmentId = a.id}
              /\ \A j \in 1..Len(plan) :
                   plan[j].assignmentId = a.id =>
                     LET c == chunkOfPlan(plan', plan[j].key)
                     IN /\ plan[j].done => c.done
                        /\ hasDayOverride(plan[j].key) =>
                             c.dayISO = clampedOverrideDay(overrides[plan[j].key].dayISO,
                                                           newToday)]_vars

\* C15 witness: after the date has advanced, an override day that was past
\* the old window is inside the new one and the chunk is planned on it
C15_Witness ==
  /\ Planned
  /\ today = MaxToday
  /\ \E j \in 1..Len(plan) :
       /\ hasDayOverride(plan[j].key)
       /\ overrides[plan[j].key].dayISO > 6
       /\ plan[j].dayISO = overrides[plan[j].key].dayISO

itemPosition(id) == CHOOSE k \in ItemIndexes : items[k].id = id

chunkIndexOf(c) == CHOOSE i \in 0..Len(plan) : chunkKey(c.assignmentId, i) = c.key

\* C17: the plan is ordered by day, then by the due instant of the owning
\* assignment; chunks equal in both keep the input order of their
\* assignments and then the order of their chunk indexes.
C17_PlanOrder ==
  Planned =>
    \A i \in 1..Len(plan) : \A j \in 1..Len(plan) :
      i < j =>
        LET x == plan[i]
            y == plan[j]
        IN /\ x.dayISO <= y.dayISO
           /\ x.dayISO = y.dayISO => x.dueISO <= y.dueISO
           /\ x.dayISO = y.dayISO /\ x.dueISO = y.dueISO =>
                \/ itemPosition(x.assignmentId) < itemPosition(y.assignmentId)
                \/ /\ x.assignmentId = y.assignmentId
                   /\ chunkIndexOf(x) < chunkIndexOf(y)

\* C17 witness: chunks of two assignments with the same due instant on the
\* same day, the second assignment of the list after the first
C17_Witness ==
  /\ Planned
  /\ Len(items) = 2
  /\ items[1].dueISO = items[2].dueISO
  /\ \E i \in 1..Len(plan) : \E j \in 1..Len(plan) :
       /\ i < j
       /\ plan[i].dayISO = plan[j].dayISO
       /\ plan[i].assignmentId = items[1].id
       /\ plan[j].assignmentId = items[2].id
       /\ items[1].id = SubjectId

chunksOnDay(d) == SelectSeq(plan, LAMBDA c : c.dayISO = d)

planDays == {plan[j].dayISO : j \in 1..Len(plan)}

RECURSIVE SumTotals(_)
SumTotals(g) == IF g = <<>> THEN 0 ELSE Head(g).total + SumTotals(Tail(g))

\* C18: the day groups are in strictly ascending day order, one per day that
\* has a chunk; the total of a group is the sum of the minutes of the chunks
\* of the plan on its day, and the totals add up to the minutes of the plan.
C18_GroupsByDay ==
  Planned =>
    LET g == groupedOf(plan)
    IN /\ \A i \in 1..Len(g) : \A j \in 1..Len(g) : i < j => g[i].dayISO < g[j].dayISO
       /\ {g[j].dayISO : j \in 1..Len(g)} = planDays
       /\ \A j \in 1..Len(g) :
            /\ g[j].list = chunksOnDay(g[j].dayISO)
            /\ g[j].total = SumSeq([i \in 1..Len(chunksOnDay(g[j].dayISO)) |->
                                      chunksOnDay(g[j].dayISO)[i].minutes])
       /\ SumTotals(g) = SumSeq([i \in 1..Len(plan) |-> plan[i].minutes])

\* C18 witness: two day groups, one of them with a done chunk and another
\* chunk
C18_Witness ==
  /\ Planned
  /\ Len(groupedOf(plan)) >= 2
  /\ \E j \in 1..Len(groupedOf(plan)) :
       /\ Len(groupedOf(plan)[j].list) >= 2
       /\ \E i \in 1..Len(groupedOf(plan)[j].list) : groupedOf(plan)[j].list[i].done

(***************************************************************************)
(* Claims about the page                                                   *)
(***************************************************************************)
Ready == pc = "ready"

\* the assignment with this id is in the list after the step, unchanged
keptUnchanged(id) ==
  \E k \in 1..Len(items) : \E m \in 1..Len(items') :
    items[k].id = id /\ items'[m] = items[k]

\* C14: toggleDone on a chunk that is not done marks it done, and a done
\* chunk of an assignment is still in the plan and done after every step
\* that is not a toggle of that chunk and leaves that assignment in the list
\* unchanged: adding, editing or removing other assignments, toggling or
\* moving chunks, reloading the page.
C14_DoneSurvivesUnrelatedEdits ==
  [][\A j \in 1..Len(plan) :
       LET c == plan[j]
       IN /\ toggleDone(c.key) /\ ~c.done =>
               hasKey(plan', c.key) /\ chunkOfPlan(plan', c.key).done
          /\ c.done /\ ~toggleDone(c.key) /\ keptUnchanged(c.assignmentId) =>
               hasKey(plan', c.key) /\ chunkOfPlan(plan', c.key).done]_vars

\* C14 witness: the second chunk of the stored assignment was marked done,
\* an assignment was added and one of its chunks has an override of its own
C14_Witness ==
  /\ Ready
  /\ hasKey(plan, chunkKey("a", 1))
  /\ chunkOfPlan(plan, chunkKey("a", 1)).done
  /\ \E k \in 1..Len(items) : items[k].id = uid(0)
  /\ chunkKey(uid(0), 0) \in DOMAIN overrides

\* the stored text is absent, empty, not JSON, or JSON that is not an object
malformedBlob(raw) ==
  \/ raw.kind = "absent"
  \/ raw.kind = "text"
  \/ raw.kind = "json" /\ "primitive" \in DOMAIN raw.value

\* the step is the first render of the page (Mount or Reload) on such a text
startsOnMalformedBlob ==
  /\ malformedBlob(storage)
  /\ pc = "boot" \/ steps' = steps + 1
  /\ items' = loadAssignments(itemsBlob)
  /\ overrides' = loadOverrides(storage)
  /\ form' = blankForm(now)
  /\ Mount \/ Reload

\* C19 as stated: starting the page on a malformed override text raises no
\* error, no chunk has an override and the plan is the one of the defaults
C19_MalformedBlobIsEmptyMap ==
  [][startsOnMalformedBlob =>
       (/\ pc' = "ready"
        /\ \A j \in 1..Len(plan') : overrideOf(overrides', plan'[j].key) = EmptyObject
        /\ plan' = buildDayPlan(items', EmptyObject, now))]_vars

\* C20: whenever the page is up, the stored text is the JSON text of the
\* override map in memory and loading it gives that map back; a reload of
\* the page leaves the override map as it was.
C20_StorageMirrorsOverrides ==
  /\ [](Ready => storage = saveOverrides(overrides) /\ loadOverrides(storage) = overrides)
  /\ [][Ready /\ Reload => overrides' = overrides /\ plan' = plan]_vars

\* C20 witness: after a toggle and a move the stored text holds both entries
C20_Witness ==
  /\ Ready
  /\ steps >= 2
  /\ \E j \in 1..Len(plan) : "dayISO" \in DOMAIN overrideOf(overrides, plan[j].key)
  /\ \E j \in 1..Len(plan) :
       /\ "done" \in DOMAIN overrideOf(overrides, plan[j].key)
       /\ plan[j].key # chunkKey("a", 0)
  /\ storage = JSONstringify(overrides)

\* C21: removing an assignment leaves the override map in memory and the
\* stored text of it as they were, so every entry keyed by a chunk of the
\* removed assignment is still present in both.
C21_RemoveKeepsOverrides ==
  [][\A k \in 1..Len(items) :
       Remove(items[k].id) =>
         (/\ overrides' = overrides
          /\ storage' = storage
          /\ \A j \in 1..Len(plan) :
               plan[j].assignmentId = items[k].id /\ plan[j].key \in DOMAIN overrides =>
                 /\ plan[j].key \in DOMAIN overrides'
                 /\ plan[j].key \in DOMAIN loadOverrides(storage')
                 /\ loadOverrides(storage')[plan[j].key] = overrides[plan[j].key])]_vars

\* C21 witness: the stored assignment was removed after its second chunk was
\* marked done; the entry is still in memory and in the stored text
C21_Witness ==
  /\ Ready
  /\ \A k \in 1..Len(items) : items[k].id # "a"
  /\ chunkKey("a", 1) \in DOMAIN overrides
  /\ storage.kind = "json"
  /\ chunkKey("a", 1) \in DOMAIN storage.value

\* the entries of every key but this one are the same before and after
othersUnchanged(key) ==
  LET before == spreadOf(overrides)
  IN /\ DOMAIN overrides' \ {key} = DOMAIN before \ {key}
     /\ \A k \in DOMAIN before \ {key} : overrides'[k] = before[k]

\* the entry of this key has the field set to v and its other field as before
onlyFieldSet(key, field, v) ==
  LET old == overrideOf(overrides, key)
  IN /\ key \in DOMAIN overrides'
     /\ DOMAIN overrides'[key] = DOMAIN old \cup {field}
     /\ overrides'[key][field] = v
     /\ \A f \in DOMAIN old \ {field} : overrides'[key][f] = old[f]

\* C22: toggleDone(k) negates the done flag of the entry of k (absent counts
\* as false) and saveMoveDay with a date sets the day of the entry of the
\* opened chunk; each keeps the other field of that entry, creates the entry
\* when there was none, and leaves the entry of every other key unchanged.
C22_ToggleAndMoveFrame ==
  [][/\ \A j \in 1..Len(plan) :
          toggleDone(plan[j].key) =>
            LET old == overrideOf(overrides, plan[j].key)
            IN /\ onlyFieldSet(plan[j].key, "done",
                               ~(IF "done" \in DOMAIN old THEN old.done ELSE FALSE))
               /\ othersUnchanged(plan[j].key)
     /\ saveMoveDay /\ isDT(movingDate) =>
          (/\ onlyFieldSet(movingKey, "dayISO", toISODate(movingDate.t))
           /\ othersUnchanged(movingKey))]_vars

\* C22 witness: one entry has both a done flag and a day, and
\* another key has an entry of its own
C22_Witness ==
  /\ Ready
  /\ \E j \in 1..Len(plan) :
       LET ov == overrideOf(overrides, plan[j].key)
       IN /\ DOMAIN ov = {"done", "dayISO"}
          /\ \E i \in 1..Len(plan) :
               /\ i # j
               /\ overrideOf(overrides, plan[i].key) # EmptyObject

\* the title is empty or whitespace only
isBlank(str) == str \in {"", " "}

formFields(f) == <<f.course, f.title, f.due, f.notes>>

\* C23: onSubmit with a blank title or with no due date leaves the list, the
\* stored list, the editing id and the form fields unchanged and opens the
\* error snackbar; the list changes only when the title is not blank and the
\* due date is a valid date.
C23_SubmitValidation ==
  [][OnSubmit =>
       (/\ isBlank(form.title) \/ form.due = Null =>
             /\ items' = items
             /\ itemsBlob' = itemsBlob
             /\ editingId' = editingId
             /\ formFields(form') = formFields(form)
             /\ snack'.open
             /\ snack'.message # ""
        /\ items' # items => ~isBlank(form.title) /\ isDT(form.due))]_vars

\* C23 witness: an added assignment is being edited, the due date was
\* cleared and the submit was refused
C23_Witness ==
  /\ Ready
  /\ editingId = uid(0)
  /\ \E k \in 1..Len(items) : items[k].id = uid(0)
  /\ form.due = Null
  /\ form.titleTouched
  /\ snack = [open |-> TRUE, message |-> "Please choose a due date and time."]

\* the submit passes the validation of onSubmit
validForm == ~isBlank(form.title) /\ isDT(form.due)

idsOf(its) == {its[k].id : k \in 1..Len(its)}

editableFields == {"course", "title", "dueISO", "notes"}

\* C24: a valid onSubmit while editing id E keeps the length and order of the
\* list, leaves every item with another id as it was, and changes only the
\* course, title, due date and notes of the item with id E, keeping its id
\* and estimate; a valid onSubmit while not editing puts exactly one new item
\* with an id not in the list in front of the unchanged list; either way the
\* form is reset and the editing id becomes null.
C24_SubmitFrame ==
  [][OnSubmit /\ validForm =>
       (/\ editingId # "" =>
             /\ Len(items') = Len(items)
             /\ \A k \in 1..Len(items) :
                  IF items[k].id = editingId
                  THEN /\ DOMAIN items'[k] = DOMAIN items[k]
                       /\ \A f \in DOMAIN items[k] \ editableFields :
                            items'[k][f] = items[k][f]
                       /\ items'[k].title = form.title
                       /\ items'[k].dueISO = form.due.t
                       /\ items'[k].course = form.course
                       /\ items'[k].notes = form.notes
                  ELSE items'[k] = items[k]
        /\ editingId = "" =>
             /\ Len(items') = Len(items) + 1
             /\ Tail(items') = items
             /\ Head(items').id \notin idsOf(items)
             /\ Head(items').title = form.title
             /\ Head(items').dueISO = form.due.t
        /\ editingId' = ""
        /\ form' = blankForm(now))]_vars

\* C24 witness: the stored assignment was edited to a new title and kept its
\* estimate, and an assignment was added in front of it
C24_Witness ==
  /\ Ready
  /\ Len(items) = 2
  /\ items[1].id = uid(0)
  /\ items[2].id = "a"
  /\ items[2].title = "T"
  /\ items[2].estimateMinutes = StoredAssignment.estimateMinutes
  /\ editingId = ""
  /\ form = blankForm(now)

\* the planned day of chunk i of an assignment
dayOfChunk(id, i) == chunkWithKey(chunkKey(id, i)).dayISO

\* C26: without day overrides, every chunk of an assignment due today or
\* later is planned on a day no later than min(due day, today+6), and the
\* planned days do not decrease with the chunk index.
C26_DefaultDaysByDueDay ==
  Planned =>
    \A k \in ItemIndexes :
      LET a == items[k]
          n == chunkCountIn(a.id)
      IN n >= 1 /\ noDayOverrides(a.id) /\ dueDayOf(a) >= today =>
           /\ \A i \in 0..(n - 1) :
                dayOfChunk(a.id, i) <= Min(dueDayOf(a), today + 6)
           /\ \A i \in 0..(n - 2) :
                dayOfChunk(a.id, i) <= dayOfChunk(a.id, i + 1)

\* C26 witness: three or more chunks spread over a window that ends on a due
\* day inside the view, the last of them on the due day
C26_Witness ==
  /\ Planned
  /\ \E k \in ItemIndexes :
       LET a == items[k]
           n == chunkCountIn(a.id)
       IN /\ n >= 3
          /\ noDayOverrides(a.id)
          /\ dueDayOf(a) > today
          /\ dueDayOf(a) < today + 6
          /\ dayOfChunk(a.id, 0) < dayOfChunk(a.id, 1)
          /\ dayOfChunk(a.id, n - 1) = dueDayOf(a)

distinctIds == \A i \in ItemIndexes : \A j \in ItemIndexes : i # j => items[i].id # items[j].id

\* C28: when the ids of the list are pairwise distinct, the keys of the
\* chunks of the plan are pairwise distinct, also when an id holds the
\* separator, so an override entry is the entry of at most one chunk.
C28_KeysDistinct ==
  Planned /\ distinctIds =>
    /\ \A i \in 1..Len(plan) : \A j \in 1..Len(plan) : i # j => plan[i].key # plan[j].key
    /\ \A k \in DOMAIN overrides :
         Cardinality({j \in 1..Len(plan) : plan[j].key = k}) <= 1

\* C28 witness: the list holds the ids "a" and "a|1", chunk 1 of "a" has the
\* key "a|1" and an override, and the other assignment has two chunks
C28_Witness ==
  /\ Planned
  /\ idsOf(items) = {SubjectId, BarId}
  /\ chunkCountIn(SubjectId) >= 2
  /\ chunkCountIn(BarId) >= 2
  /\ chunkKey(SubjectId, 1) = BarId
  /\ BarId \in DOMAIN overrides

\* the dialog is open on a chunk of the plan and still shows the date it was
\* opened with
dialogUntouched ==
  /\ movingKey # ""
  /\ hasKey(plan, movingKey)
  /\ movingDate = fromISOLocal(chunkOfPlan(plan, movingKey).dayISO, zone)

\* C30 as stated: saving the dialog with the date it was opened with leaves
\* the planned day of its chunk as it was, in every system time zone; Cancel
\* and a save with no date leave the override map and its stored text as
\* they were
C30_SaveUnchangedKeepsDay ==
  [][/\ saveMoveDay /\ dialogUntouched =>
          (/\ hasKey(plan', movingKey)
           /\ chunkOfPlan(plan', movingKey).dayISO = chunkOfPlan(plan, movingKey).dayISO)
     /\ cancelMoveDay \/ (saveMoveDay /\ movingDate = Null) =>
          overrides' = overrides /\ storage' = storage]_vars

(***************************************************************************)
(* Claims about the list of App                                            *)
(***************************************************************************)
\* the text occurs in the text "title course notes" of the assignment,
\* letter case aside
occursIn(q, a) ==
  LET hay == toLowerCase(charsOf(a.title) \o <<" ">> \o charsOf(fieldOr(a, "course"))
                         \o <<" ">> \o charsOf(fieldOr(a, "notes")))
      needle == toLowerCase(trimChars(q))
  IN \E pre \in 0..Len(hay) :
       /\ pre + Len(needle) <= Len(hay)
       /\ \A k \in 1..Len(needle) : hay[pre + k] = needle[k]

\* the assignment passes the three filters at time t
passes(a, f, t) ==
  /\ occursIn(f.query, a)
  /\ f.courseFilter # "ALL" => a.course = f.courseFilter
  /\ f.statusFilter = "OVERDUE" => a.dueISO < t
  /\ f.statusFilter = "DUESOON" => t <= a.dueISO /\ a.dueISO <= t + 48
  /\ f.statusFilter = "UPCOMING" => a.dueISO > t + 48

\* the list holds exactly the assignments that pass, once each, in the order
\* of the due instants
exactList(list, its, f, t) ==
  /\ \A k \in 1..Len(its) :
       Cardinality({j \in 1..Len(list) : list[j] = its[k]})
         = IF passes(its[k], f, t) THEN 1 ELSE 0
  /\ \A j \in 1..Len(list) : \E k \in 1..Len(its) : list[j] = its[k]
  /\ \A i \in 1..Len(list) : \A j \in 1..Len(list) :
       i < j => IF f.sortOrder = "DUE_ASC"
                THEN list[i].dueISO <= list[j].dueISO
                ELSE list[i].dueISO >= list[j].dueISO
  /\ f = DefaultFilters => Len(list) = Len(its)

C27_EditingIdInList ==
  /\ [](Ready => editingId = "" \/ editingId \in idsOf(items))
  /\ [][\A k \in 1..Len(items) :
          Remove(items[k].id) =>
            editingId' = (IF editingId = items[k].id THEN "" ELSE editingId)]_vars

\* C27 witness: an assignment is being edited under a filter after another
\* assignment was removed
C27_Witness ==
  /\ Ready
  /\ editingId = "x"
  /\ idsOf(items) = {"x"}
  /\ itemsBlob = saveAssignments(items)
  /\ filters # DefaultFilters

chipOfStatus(status) ==
  CASE status = "OVERDUE" -> "Overdue"
    [] status = "DUESOON" -> "Due soon"
    [] status = "UPCOMING" -> "Upcoming"

\* C29 as stated: while a status filter is selected, every row of the list
\* on the page has the chip of that status
C29_ChipMatchesStatusFilter ==
  Ready /\ filters.statusFilter # "ALL" =>
    \A j \in 1..Len(shown) : shown[j].chip = chipOfStatus(filters.statusFilter)

====
